---- MODULE Spec2Model ----
(***************************************************************************)
(* editorjs/blocks.py: the block registry, the inline content serializer   *)
(* and the per-block converters between mdast nodes and EditorJS blocks.   *)
(*                                                                         *)
(* A Python str is a sequence of lexemes: single characters ("a", " ",     *)
(* "|", "\n") and, where the code only ever treats a run of characters as  *)
(* a unit, that run ("<cite>", "<br/>", a whole "<editorjs ...>" tag).     *)
(* A dict is a record; an absent key is a field outside its DOMAIN.        *)
(* A call that raises returns [kind |-> <exception>]; one that returns     *)
(* gives [kind |-> "ok", val |-> <value>].                                 *)
(***************************************************************************)
EXTENDS Integers, Sequences, FiniteSets, TLC

VARIABLES BLOCKS, call, result

vars == <<BLOCKS, call, result>>

(***************************************************************************)
(* Bounds of the model.                                                    *)
(***************************************************************************)
\* nested process_styled_content calls the interpreter allows before it
\* raises RecursionError (sys.getrecursionlimit(), scaled down)
RecursionLimit == 8
\* children per generated inline node
MaxChildren == 2

(***************************************************************************)
(* Python values.                                                          *)
(***************************************************************************)
Ok(v) == [kind |-> "ok", val |-> v]
Err(k) == [kind |-> k]
IsOk(r) == r.kind = "ok"

\* dict.get(key, default)
Get(d, k, default) == IF k \in DOMAIN d THEN d[k] ELSE default

RECURSIVE SeqsUpTo(_, _)
\* every sequence over S of length at most n
SeqsUpTo(S, n) ==
    IF n = 0 THEN {<<>>}
    ELSE LET shorter == SeqsUpTo(S, n - 1)
         IN shorter \cup {Append(s, x) : s \in {t \in shorter : Len(t) = n - 1}, x \in S}

RECURSIVE SeqsOfSeqs(_, _, _)
\* every sequence of at most n sequences over S that hold at most total
\* elements between them
SeqsOfSeqs(S, n, total) ==
    IF n = 0 THEN {<<>>}
    ELSE {<<>>} \cup
         UNION {{<<first>> \o rest : rest \in SeqsOfSeqs(S, n - 1, total - Len(first))} :
                    first \in SeqsUpTo(S, total)}

RECURSIVE Flatten(_)
\* "".join(parts)
Flatten(parts) ==
    IF parts = <<>> THEN <<>> ELSE Head(parts) \o Flatten(Tail(parts))

(***************************************************************************)
(* The registry: BLOCKS and the block decorator (blocks.py 31-40).         *)
(***************************************************************************)
Converters ==
    {"HeadingBlock", "ParagraphBlock", "ListBlock", "ChecklistBlock", "DelimiterBlock",
     "CodeBlock", "ImageBlock", "QuoteBlock", "RawBlock", "TableBlock", "LinkBlock",
     "AttachmentBlock"}

\* BLOCKS once the module is imported: every @block(...) decorator has run
ImportedBLOCKS ==
    [name \in {"heading", "header", "paragraph", "list", "checklist", "thematicBreak",
               "delimiter", "code", "image", "blockquote", "quote", "raw", "table",
               "linkTool", "attaches"} |->
        CASE name \in {"heading", "header"} -> "HeadingBlock"
          [] name = "paragraph" -> "ParagraphBlock"
          [] name = "list" -> "ListBlock"
          [] name = "checklist" -> "ChecklistBlock"
          [] name \in {"thematicBreak", "delimiter"} -> "DelimiterBlock"
          [] name = "code" -> "CodeBlock"
          [] name = "image" -> "ImageBlock"
          [] name \in {"blockquote", "quote"} -> "QuoteBlock"
          [] name = "raw" -> "RawBlock"
          [] name = "table" -> "TableBlock"
          [] name = "linkTool" -> "LinkBlock"
          [] name = "attaches" -> "AttachmentBlock"]

\* for name in names: BLOCKS[name] = cls
RECURSIVE block_wrapper(_, _, _)
block_wrapper(registry, names, cls) ==
    IF names = <<>> THEN registry
    ELSE LET name == Head(names)
             assigned == [n \in DOMAIN registry \cup {name} |->
                             IF n = name THEN cls ELSE registry[n]]
         IN block_wrapper(assigned, Tail(names), cls)

(***************************************************************************)
(* The inline content serializer (blocks.py 43-87) and the to_text of      *)
(* every converter, which it dispatches to.                                *)
(***************************************************************************)
html_wrappers ==
    {"text", "html", "emphasis", "strong", "strongEmphasis", "link", "inlineCode"}

\* template.format(value=value, url=item.get("url", ""), ...)
format_wrapper(_type, value, url) ==
    CASE _type = "emphasis" -> <<"<i>">> \o value \o <<"</i>">>
      [] _type = "strong" -> <<"<b>">> \o value \o <<"</b>">>
      [] _type = "strongEmphasis" -> <<"<b><i>">> \o value \o <<"</i></b>">>
      [] _type = "link" -> <<"<a href=\"">> \o url \o <<"\">">> \o value \o <<"</a>">>
      [] _type = "inlineCode" -> <<"<code class=\"inline-code\">">> \o value \o <<"</code>">>
      [] OTHER -> value

\* urlparse(url).netloc: the host between "//" and the next "/"
netloc(url) ==
    IF Len(url) >= 2 /\ url[1] = "https://" THEN <<url[2]>> ELSE <<>>

\* the None object: one lexeme that no str holds
None == <<"None">>

\* str(x) of a value an f-string interpolates: None prints as "None"
fstr(x) == IF x = None THEN <<"N", "o", "n", "e">> ELSE x

LinkBlock_to_text(node) ==
    LET url == Get(node, "href", <<>>)
        image == Get(node, "image", <<>>)
        title == Get(node, "title", <<>>)
        body == Get(node, "body", <<>>)
    IN <<"\n", "<div class=\"link-tool\">", "\n", "<a href=\"">> \o fstr(url)
        \o <<"\">", "\n", "<div image=\"">> \o fstr(image)
        \o <<"\">", "</div>", "\n", "<div title>">> \o fstr(title)
        \o <<"</div>", "\n", "<p>">> \o fstr(body)
        \o <<"</p>", "\n", "<span>">> \o netloc(url)
        \o <<"</span>", "\n", "</a>", "\n", "</div>", "\n">>

AttachmentBlock_to_text(node) ==
    <<"\n", "<div class=\"cdx-attaches\">", "\n", "<div title>", "\n">>
        \o fstr(Get(node, "body", <<>>))
        \o <<"\n", "</div>", "\n", "<a href=\"">> \o fstr(Get(node, "file", <<>>))
        \o <<"\">", "\n", "</a>", "\n", "</div>", "\n">>

HeadingBlock_to_text(node) ==
    LET children == Get(node, "children", <<>>)
    IN IF Len(children) # 1 THEN Err("ValueError: Header block must have exactly one child")
       ELSE Ok(Get(children[1], "value", <<>>))

ImageBlock_to_text(node) ==
    LET alt == Get(node, "alt", <<>>)
        caption == Get(node, "caption", <<>>)
    IN IF alt # <<>> THEN alt ELSE IF caption # <<>> THEN caption ELSE <<>>

RECURSIVE process_styled_content(_, _, _)
RECURSIVE join_styled_children(_, _, _)
RECURSIVE default_to_text(_, _)
RECURSIVE to_text(_, _, _)

\* the recursive call of line 74: strict is not passed on, so it is the default
child_strict(strict) == TRUE

\* "".join(process_styled_content(child) for child in children): the first
\* child that raises ends the join
join_styled_children(children, strict, depth) ==
    LET Joined(first, rest) ==
            IF ~IsOk(first) THEN first
            ELSE IF ~IsOk(rest) THEN rest
            ELSE Ok(first.val \o rest.val)
    IN IF children = <<>> THEN Ok(<<>>)
       ELSE Joined(process_styled_content(Head(children), strict, depth),
                   join_styled_children(Tail(children), strict, depth))

process_styled_content(item, strict, depth) ==
    LET _type == Get(item, "type", "None")
        children == Get(item, "children", <<>>)
        Wrapped(value) ==
            IF ~IsOk(value) THEN value
            ELSE Ok(format_wrapper(_type, value.val, Get(item, "url", <<>>)))
    IN IF depth > RecursionLimit THEN Err("RecursionError")
       ELSE IF _type \in DOMAIN BLOCKS THEN to_text(BLOCKS[_type], item, depth)
       ELSE IF strict /\ _type \notin html_wrappers
       THEN Err("ValueError: Unsupported type in paragraph")
       ELSE Wrapped(IF children # <<>>
                    THEN join_styled_children(children, child_strict(strict), depth + 1)
                    ELSE Ok(Get(item, "value", <<>>)))

default_to_text(node, depth) ==
    LET Joined(joined) ==
            IF ~IsOk(joined) THEN joined
            ELSE IF joined.val # <<>> THEN joined
            ELSE process_styled_content(node, TRUE, depth + 1)
    IN Joined(join_styled_children(Get(node, "children", <<>>), TRUE, depth + 1))

\* cls.to_text(node)
to_text(cls, node, depth) ==
    CASE cls = "HeadingBlock" -> HeadingBlock_to_text(node)
      [] cls \in {"ParagraphBlock", "QuoteBlock"} -> default_to_text(node, depth)
      [] cls \in {"ListBlock", "ChecklistBlock", "DelimiterBlock"} -> Ok(<<>>)
      [] cls = "CodeBlock" -> Ok(Get(node, "value", <<>>))
      [] cls = "ImageBlock" -> Ok(ImageBlock_to_text(node))
      [] cls \in {"RawBlock", "TableBlock", "EditorJSCustom"} -> Err("TODO")
      [] cls = "LinkBlock" -> Ok(LinkBlock_to_text(node))
      [] cls = "AttachmentBlock" -> Ok(AttachmentBlock_to_text(node))

(***************************************************************************)
(* Inline trees handed to the serializer.                                  *)
(***************************************************************************)
InlineLeaves ==
    {[type |-> "text", value |-> <<"a">>],
     [type |-> "mark", value |-> <<"m">>],
     [type |-> "thematicBreak"],
     [type |-> "list", children |-> <<>>],
     [type |-> "image", alt |-> <<"c">>, url |-> <<"u">>]}

InlineTypes == {"emphasis", "link", "mark", "paragraph", "blockquote"}

InlineInner ==
    {[type |-> t, children |-> c] : t \in InlineTypes, c \in SeqsUpTo(InlineLeaves, MaxChildren)}

InlineTrees ==
    InlineLeaves \cup InlineInner
        \cup {[type |-> t, children |-> <<c>>] : t \in InlineTypes, c \in InlineInner}

(***************************************************************************)
(* State machine.                                                          *)
(***************************************************************************)
\* no conversion call is in progress
Idle == [op |-> "idle"]

Init ==
    /\ BLOCKS = ImportedBLOCKS
    /\ call = Idle
    /\ result = Ok(<<>>)

\* the caller takes the result; calls and their results are transient
Return ==
    /\ call # Idle
    /\ call' = Idle
    /\ result' = Ok(<<>>)
    /\ UNCHANGED BLOCKS

\* process_styled_content(item, strict)
CallProcessStyledContent ==
    /\ call = Idle
    /\ \E item \in InlineTrees, strict \in BOOLEAN :
        /\ call' = [op |-> "process_styled_content", node |-> item, strict |-> strict]
        /\ result' = process_styled_content(item, strict, 1)
        /\ UNCHANGED BLOCKS

\* ParagraphBlock.to_text(node), QuoteBlock.to_text(node), ListBlock.to_text(node)
CallToText ==
    /\ call = Idle
    /\ \E cls \in {"ParagraphBlock", "QuoteBlock", "ListBlock"}, node \in InlineTrees :
        /\ call' = [op |-> "to_text", cls |-> cls, node |-> node]
        /\ result' = to_text(cls, node, 1)
        /\ UNCHANGED BLOCKS

NextInline == CallProcessStyledContent \/ CallToText \/ Return

SpecInline == Init /\ [][NextInline]_vars

\* the errors the converters declare: ValueError and the not-implemented TODO
DeclaredErrors ==
    {"ValueError: Unsupported type in paragraph",
     "ValueError: Header block must have exactly one child", "TODO"}

\* C1: every to_text call of Paragraph, Quote and List on a finite node ends:
\* it returns a string or raises a declared error, and never recurses until
\* the interpreter gives up.
C1_ConversionTerminates ==
    call.op = "to_text" => (IsOk(result) \/ result.kind \in DeclaredErrors)

UnsupportedInlineType == "ValueError: Unsupported type in paragraph"

Recognized(node) ==
    Get(node, "type", "None") \in html_wrappers \cup DOMAIN BLOCKS

\* C8: strict serialization of a node of unrecognized type raises
\* UnsupportedInlineType; non-strict serialization never raises it, and
\* renders a childless node of unrecognized type as its literal value.
C8_InlineModes ==
    call.op = "process_styled_content" =>
        /\ (call.strict /\ ~Recognized(call.node)) => result.kind = UnsupportedInlineType
        /\ ~call.strict => result.kind # UnsupportedInlineType
        /\ (~call.strict /\ ~Recognized(call.node)
                /\ Get(call.node, "children", <<>>) = <<>>) =>
               result = Ok(Get(call.node, "value", <<>>))

(***************************************************************************)
(* str methods the converters use.                                         *)
(***************************************************************************)
IsSpace(c) == c \in {" ", "\n", "\t"}

RECURSIVE lstrip(_)
lstrip(s) == IF s # <<>> /\ IsSpace(Head(s)) THEN lstrip(Tail(s)) ELSE s

RECURSIVE rstrip(_)
rstrip(s) ==
    IF s # <<>> /\ IsSpace(s[Len(s)]) THEN rstrip(SubSeq(s, 1, Len(s) - 1)) ELSE s

\* s.strip()
strip(s) == rstrip(lstrip(s))

\* s.startswith(prefix)
startswith(s, prefix) ==
    Len(s) >= Len(prefix) /\ SubSeq(s, 1, Len(prefix)) = prefix

\* s.endswith(suffix)
endswith(s, suffix) ==
    Len(s) >= Len(suffix) /\ SubSeq(s, Len(s) - Len(suffix) + 1, Len(s)) = suffix

\* s.removeprefix(prefix)
removeprefix(s, prefix) ==
    IF startswith(s, prefix) THEN SubSeq(s, Len(prefix) + 1, Len(s)) ELSE s

\* s.find(c): the first index of the one-character string c in s, 0 when absent
find(s, c) ==
    IF \E i \in 1..Len(s) : s[i] = c
    THEN CHOOSE i \in 1..Len(s) : s[i] = c /\ \A j \in 1..(i - 1) : s[j] # c
    ELSE 0

RECURSIVE split(_, _)
\* s.split(c) for a one-character separator: always at least one piece
split(s, c) ==
    LET i == find(s, c)
    IN IF i = 0 THEN <<s>>
       ELSE <<SubSeq(s, 1, i - 1)>> \o split(SubSeq(s, i + 1, Len(s)), c)

RECURSIVE join(_, _)
\* sep.join(parts)
join(sep, parts) ==
    IF parts = <<>> THEN <<>>
    ELSE IF Len(parts) = 1 THEN parts[1]
    ELSE parts[1] \o sep \o join(sep, Tail(parts))

RECURSIVE repeat(_, _)
\* s * n
repeat(s, n) == IF n <= 0 THEN <<>> ELSE s \o repeat(s, n - 1)

RECURSIVE replace(_, _, _)
\* s.replace(c, new) for a one-character c
replace(s, c, new) ==
    IF s = <<>> THEN <<>>
    ELSE (IF Head(s) = c THEN new ELSE <<Head(s)>>) \o replace(Tail(s), c, new)

(***************************************************************************)
(* TableBlock (blocks.py 460-524).                                         *)
(***************************************************************************)
\* "| " + " | ".join(tr) + " |\n"
table_row(tr) == <<"|", " ">> \o join(<<" ", "|", " ">>, tr) \o <<" ", "|", "\n">>

\* "|" + " - |" * n + "\n"
table_separator(n) == <<"|">> \o repeat(<<" ", "-", " ", "|">>, n) \o <<"\n">>

RECURSIVE table_rows(_, _, _)
\* the loop of lines 482-487 from row idx on
table_rows(rows, idx, withHeadings) ==
    IF idx > Len(rows) THEN <<>>
    ELSE table_row(rows[idx])
            \o (IF idx = 1 /\ withHeadings THEN table_separator(Len(rows[idx])) ELSE <<>>)
            \o table_rows(rows, idx + 1, withHeadings)

TableBlock_to_markdown(data) ==
    LET rows == Get(data, "content", <<>>)
        withHeadings == Get(data, "withHeadings", FALSE)
        blank_header ==
            IF ~withHeadings /\ rows # <<>>
            THEN table_row([i \in 1..Len(rows[1]) |-> <<>>]) \o table_separator(Len(rows[1]))
            ELSE <<>>
    IN <<"\n">> \o blank_header \o table_rows(rows, 1, withHeadings) \o <<"\n">>

\* [_.strip() for _ in row.split("|")[1:-1]]
table_cells(row) ==
    LET fields == split(row, "|")
    IN [i \in 1..(IF Len(fields) > 2 THEN Len(fields) - 2 ELSE 0) |-> strip(fields[i + 1])]

\* a parser that takes the separator row for a body row
keeps_separator_row(idx) == FALSE

\* idx == 1: continue
skips_row(idx) == idx = 2

TableBlock_to_json(node) ==
    LET lines == split(strip(Get(node, "value", <<>>)), "\n")
        tr(i) == table_cells(lines[i])
        any_heading == \E c \in 1..Len(tr(1)) : tr(1)[c] # <<>>
        kept == {i \in 1..Len(lines) : IF i = 1 THEN any_heading ELSE ~skips_row(i)}
        Nth(n) == CHOOSE i \in kept : Cardinality({j \in kept : j < i}) = n - 1
    IN Ok(<<[type |-> "table",
            data |-> [content |-> [n \in 1..Cardinality(kept) |-> tr(Nth(n))],
                      withHeadings |-> any_heading]]>>)

\* rows of a generated table
MaxRows == 2
\* cells of a generated table, over all its rows
MaxCells == 4

TableCellValues == {<<>>, <<"a">>, <<" ", "a">>, <<"|">>}

\* the tables of at most rows rows and cells cells
TableData(rows, cells) ==
    {[content |-> c, withHeadings |-> h] :
        c \in SeqsOfSeqs(TableCellValues, rows, cells), h \in BOOLEAN}

\* TableBlock.to_json({"value": TableBlock.to_markdown(data)})
CallTableRoundTrip ==
    /\ call = Idle
    /\ \E data \in TableData(MaxRows, MaxCells) :
        /\ call' = [op |-> "table_round_trip", data |-> data,
                    markdown |-> TableBlock_to_markdown(data)]
        /\ result' = TableBlock_to_json([type |-> "text", value |-> call'.markdown])
        /\ UNCHANGED BLOCKS

NextTable == CallTableRoundTrip \/ Return

SpecTable == Init /\ [][NextTable]_vars

\* C5 as stated: every table data record comes back unchanged from
\* to_json(to_markdown(data)), as the single block of the result.
C5_TableRoundTripAny ==
    call.op = "table_round_trip" =>
        result = Ok(<<[type |-> "table", data |-> call.data]>>)

\* a cell that survives the pipe-delimited text form: no pipe, no line break,
\* no surrounding whitespace
PlainCell(cell) ==
    /\ \A i \in 1..Len(cell) : cell[i] \notin {"|", "\n"}
    /\ strip(cell) = cell

RoundTrippable(data) ==
    /\ \A r \in 1..Len(data.content) :
          /\ Len(data.content[r]) >= 1
          /\ \A c \in 1..Len(data.content[r]) : PlainCell(data.content[r][c])
    /\ data.withHeadings =>
          /\ data.content # <<>>
          /\ \E c \in 1..Len(data.content[1]) : data.content[1][c] # <<>>

\* C5 as amended: the round trip returns the data unchanged when every row has
\* at least one cell, every cell is plain, and a table with headings has a
\* first row with a non-empty cell.
C5_TableRoundTrip ==
    (call.op = "table_round_trip" /\ RoundTrippable(call.data)) =>
        result = Ok(<<[type |-> "table", data |-> call.data]>>)

\* both forms come back: a table with headings and a body row, and one without
C5_Witness ==
    /\ call.op = "table_round_trip"
    /\ RoundTrippable(call.data)
    /\ Len(call.data.content) = 2
    /\ Len(call.data.content[1]) = 2
    /\ call.data.withHeadings
    /\ result = Ok(<<[type |-> "table", data |-> call.data]>>)

(***************************************************************************)
(* ListBlock.to_json (blocks.py 243-317).                                  *)
(***************************************************************************)
CHECKBOX_OPEN == <<"[", " ", "]">>
CHECKBOX_DONE == <<"[", "x", "]">>

\* value.strip().startswith(("[ ]", "[x]"))
is_checklist(value) ==
    startswith(strip(value), CHECKBOX_OPEN) \/ startswith(strip(value), CHECKBOX_DONE)

\* x["content"].removeprefix("[ ] ").removeprefix("[x] ")
checklist_text(content) ==
    removeprefix(removeprefix(content, CHECKBOX_OPEN \o <<" ">>), CHECKBOX_DONE \o <<" ">>)

checklist_item(x) ==
    [text |-> checklist_text(x.content), checked |-> startswith(x.content, CHECKBOX_DONE)]

RECURSIVE ListBlock_to_json(_, _)
RECURSIVE list_grandchildren(_, _, _)
RECURSIVE list_children(_, _, _)

\* the inner loop of lines 266-276 over the rest of an item's children; acc is
\* [content, items, could_be_checklist] so far
list_grandchildren(grandchildren, acc, depth) ==
    LET grandchild == Head(grandchildren)
        _type == Get(grandchild, "type", <<>>)
        WithParagraph(subcontent) ==
            IF ~IsOk(subcontent) THEN subcontent
            ELSE list_grandchildren(Tail(grandchildren),
                    [content |-> acc.content \o subcontent.val,
                     items |-> acc.items,
                     could_be_checklist |->
                        acc.could_be_checklist /\ is_checklist(subcontent.val)],
                    depth)
        WithList(sub) ==
            IF ~IsOk(sub) THEN sub
            ELSE list_grandchildren(Tail(grandchildren),
                    [content |-> acc.content,
                     items |-> acc.items \o sub.val[1].data.items,
                     could_be_checklist |-> FALSE],
                    depth)
    IN IF grandchildren = <<>> THEN Ok(acc)
       ELSE IF _type = "paragraph"
       THEN WithParagraph(to_text("ParagraphBlock", grandchild, depth))
       ELSE IF _type = "list"
       THEN WithList(ListBlock_to_json(grandchild, depth + 1))
       ELSE Err("ValueError: Unsupported type in list")

\* the outer loop of lines 262-283; acc is [items, could_be_checklist] so far
list_children(children, acc, depth) ==
    LET WithItem(item) ==
            IF ~IsOk(item) THEN item
            ELSE list_children(Tail(children),
                    [items |-> Append(acc.items,
                                      [content |-> item.val.content, items |-> item.val.items]),
                     could_be_checklist |-> item.val.could_be_checklist],
                    depth)
    IN IF children = <<>> THEN Ok(acc)
       ELSE IF "children" \notin DOMAIN Head(children) THEN Err("KeyError")
       ELSE WithItem(list_grandchildren(Head(children).children,
                        [content |-> <<>>, items |-> <<>>,
                         could_be_checklist |-> acc.could_be_checklist], depth))

ListBlock_to_json(node, depth) ==
    LET Block(scanned) ==
            IF ~IsOk(scanned) THEN scanned
            ELSE IF scanned.val.could_be_checklist
            THEN Ok(<<[type |-> "checklist",
                       data |-> [items |-> [i \in 1..Len(scanned.val.items) |->
                                               checklist_item(scanned.val.items[i])]]]>>)
            ELSE Ok(<<[type |-> "list",
                       data |-> [items |-> scanned.val.items,
                                 style |-> IF Get(node, "ordered", FALSE)
                                           THEN "ordered" ELSE "unordered"]]>>)
    IN IF depth > RecursionLimit THEN Err("RecursionError")
       ELSE IF "children" \notin DOMAIN node THEN Err("KeyError")
       ELSE Block(list_children(node.children,
                        [items |-> <<>>, could_be_checklist |-> TRUE], depth))

\* items of a generated list
MaxItems == 2
\* children of the items of a generated list, over all its items
MaxGrandchildren == 3

Paragraph(text) ==
    [type |-> "paragraph", children |-> <<[type |-> "text", value |-> text]>>]

ListItem(grandchildren) == [type |-> "listItem", children |-> grandchildren]

ItemTexts ==
    {CHECKBOX_OPEN \o <<" ", "a">>, CHECKBOX_DONE \o <<" ", "b">>, <<"b">>,
     <<" ">> \o CHECKBOX_OPEN \o <<" ", "a">>,
     CHECKBOX_OPEN \o <<" ">> \o CHECKBOX_DONE \o <<" ", "b">>}

ItemChildren ==
    {Paragraph(text) : text \in ItemTexts}
        \cup {[type |-> "list", children |-> <<ListItem(<<Paragraph(<<"c">>)>>)>>],
              [type |-> "code", value |-> <<"c">>]}

\* the lists of at most items items with grandchildren children between them
ListNodes(items, grandchildren) ==
    {[type |-> "list", ordered |-> o,
      children |-> [i \in 1..Len(c) |-> ListItem(c[i])]] :
        o \in BOOLEAN, c \in SeqsOfSeqs(ItemChildren, items, grandchildren)}

\* ListBlock.to_json(node)
CallListToJson ==
    /\ call = Idle
    /\ \E node \in ListNodes(MaxItems, MaxGrandchildren) :
        /\ call' = [op |-> "ListBlock.to_json", node |-> node]
        /\ result' = ListBlock_to_json(node, 1)
        /\ UNCHANGED BLOCKS

NextList == CallListToJson \/ Return

SpecList == Init /\ [][NextList]_vars

RECURSIVE paragraph_texts(_)
\* the rendered text of each paragraph child of an item, in order
paragraph_texts(grandchildren) ==
    IF grandchildren = <<>> THEN <<>>
    ELSE (IF Head(grandchildren).type = "paragraph"
          THEN <<to_text("ParagraphBlock", Head(grandchildren), 1).val>> ELSE <<>>)
            \o paragraph_texts(Tail(grandchildren))

HasNestedList(item) == \E g \in 1..Len(item.children) : item.children[g].type = "list"

LooksChecked(content) ==
    startswith(content, CHECKBOX_OPEN) \/ startswith(content, CHECKBOX_DONE)

\* C3: when every top-level item's concatenated content starts with a
\* checkbox marker and no top-level item has a nested list, the block
\* produced is a checklist; when some top-level item has a nested list, the
\* block produced is a list.
C3_ChecklistInference ==
    (call.op = "ListBlock.to_json" /\ IsOk(result)) =>
        LET items == call.node.children
        IN /\ ((\A i \in 1..Len(items) :
                    /\ LooksChecked(Flatten(paragraph_texts(items[i].children)))
                    /\ ~HasNestedList(items[i]))
                => result.val[1].type = "checklist")
           /\ ((\E i \in 1..Len(items) : HasNestedList(items[i]))
                => result.val[1].type = "list")

\* content with its one leading "[ ] " or "[x] " marker removed
one_marker_removed(content) ==
    IF startswith(content, CHECKBOX_OPEN \o <<" ">>)
       \/ startswith(content, CHECKBOX_DONE \o <<" ">>)
    THEN SubSeq(content, 5, Len(content))
    ELSE content

\* C12: the items of an emitted checklist correspond one-to-one and in order
\* to the top-level items of the list; checked is true exactly when the item's
\* content starts with the [x] marker, and text is the content with exactly
\* its one leading marker removed.
C12_ChecklistItems ==
    (/\ call.op = "ListBlock.to_json"
     /\ IsOk(result)
     /\ result.val[1].type = "checklist") =>
        LET items == call.node.children
            emitted == result.val[1].data.items
        IN /\ Len(emitted) = Len(items)
           /\ \A i \in 1..Len(items) :
                LET content == Flatten(paragraph_texts(items[i].children))
                IN /\ emitted[i].checked <=> startswith(content, CHECKBOX_DONE)
                   /\ emitted[i].text = one_marker_removed(content)

(***************************************************************************)
(* Tags.  A tag is one lexeme; AttributeParser (blocks.py 620-631, on      *)
(* html.parser.HTMLParser) reads its kind, name and attributes, with the   *)
(* character references of attribute values resolved.                      *)
(***************************************************************************)
EJ_LINK_SELF == "<editorjs type=\"linkTool\" href=\"u\"/>"
EJ_LINK_OPEN == "<editorjs type=\"linkTool\" href=\"u\">"
EJ_CODE_SELF == "<editorjs type=\"code\" value=\"x\"/>"
EJ_CODE_AMP == "<editorjs type=\"code\" value=\"&lt;editorjs type=&quot;code&quot; value=&quot;x&quot;/&gt;\"/>"
EJ_BOGUS_SELF == "<editorjs type=\"bogus\"/>"
EJ_BOGUS_OPEN == "<editorjs type=\"bogus\">"
EJ_NOTYPE_SELF == "<editorjs/>"
EJ_RAW_SELF == "<editorjs type=\"raw\"/>"
EJ_CLOSE == "</editorjs>"
X_CODE_OPEN == "<x type=\"code\" value=\"v\">"
BR == "<br/>"
U_OPEN == "<u>"
U_CLOSE == "</u>"

NoAttributes == <<>>

\* what HTMLParser makes of one lexeme
TagOf(lexeme) ==
    CASE lexeme = EJ_LINK_SELF ->
            [kind |-> "startend", name |-> "editorjs",
             attrs |-> [type |-> "linkTool", href |-> <<"u">>]]
      [] lexeme = EJ_LINK_OPEN ->
            [kind |-> "start", name |-> "editorjs",
             attrs |-> [type |-> "linkTool", href |-> <<"u">>]]
      [] lexeme = EJ_CODE_SELF ->
            [kind |-> "startend", name |-> "editorjs",
             attrs |-> [type |-> "code", value |-> <<"x">>]]
      [] lexeme = EJ_CODE_AMP ->
            [kind |-> "startend", name |-> "editorjs",
             attrs |-> [type |-> "code", value |-> <<EJ_CODE_SELF>>]]
      [] lexeme = EJ_BOGUS_SELF ->
            [kind |-> "startend", name |-> "editorjs", attrs |-> [type |-> "bogus"]]
      [] lexeme = EJ_BOGUS_OPEN ->
            [kind |-> "start", name |-> "editorjs", attrs |-> [type |-> "bogus"]]
      [] lexeme = EJ_NOTYPE_SELF ->
            [kind |-> "startend", name |-> "editorjs", attrs |-> NoAttributes]
      [] lexeme = EJ_RAW_SELF ->
            [kind |-> "startend", name |-> "editorjs", attrs |-> [type |-> "raw"]]
      [] lexeme = EJ_CLOSE -> [kind |-> "end", name |-> "editorjs", attrs |-> NoAttributes]
      [] lexeme = X_CODE_OPEN ->
            [kind |-> "start", name |-> "x", attrs |-> [type |-> "code", value |-> <<"v">>]]
      [] lexeme = BR -> [kind |-> "startend", name |-> "br", attrs |-> NoAttributes]
      [] lexeme = U_OPEN -> [kind |-> "start", name |-> "u", attrs |-> NoAttributes]
      [] lexeme = U_CLOSE -> [kind |-> "end", name |-> "u", attrs |-> NoAttributes]
      [] OTHER -> [kind |-> "data", name |-> "", attrs |-> NoAttributes]

IsStartTag(lexeme) == TagOf(lexeme).kind \in {"start", "startend"}
IsData(lexeme) == TagOf(lexeme).kind = "data"

\* value.startswith("<editorjs")
startswith_editorjs(value) ==
    value # <<>> /\ IsStartTag(value[1]) /\ TagOf(value[1]).name = "editorjs"

\* value.endswith("/>")
endswith_selfclose(value) ==
    value # <<>> /\ TagOf(value[Len(value)]).kind = "startend"

\* handle_starttag: self.attributes = dict(attrs), so the last start tag wins
parsed_attributes(html) ==
    LET starts == {i \in 1..Len(html) : IsStartTag(html[i])}
    IN IF starts = {} THEN NoAttributes
       ELSE TagOf(html[CHOOSE i \in starts : \A j \in starts : j <= i]).attrs

\* handle_data: self.data = data, so the last run of text wins; None without text
parsed_data(html) ==
    LET texts == {i \in 1..Len(html) : IsData(html[i])}
    IN IF texts = {} THEN None
       ELSE LET last == CHOOSE i \in texts : \A j \in texts : j <= i
                first == CHOOSE i \in 1..last :
                            /\ \A j \in i..last : IsData(html[j])
                            /\ (i = 1 \/ ~IsData(html[i - 1]))
            IN SubSeq(html, first, last)

\* EditorJSCustom.parse_html
parse_html(html) == [attributes |-> parsed_attributes(html), data |-> parsed_data(html)]

\* attrs.setdefault("body", body)
setdefault_body(attrs, body) ==
    [k \in DOMAIN attrs \cup {"body"} |->
        IF k = "body" /\ "body" \notin DOMAIN attrs THEN body ELSE attrs[k]]

(***************************************************************************)
(* to_json of the converters (blocks.py 102-122, 149-214, 344-436,         *)
(* 538-597, 653-663).                                                      *)
(***************************************************************************)
paragraph_block(text) == [type |-> "paragraph", data |-> [text |-> text]]

raw_block(html) == [type |-> "raw", data |-> [html |-> html]]

\* a list that is itself an element of a list
PyList(elements) == [list |-> elements]

CITE_OPEN == "<cite>"
CITE_CLOSE == "</cite>"

\* re_cite.search(text, pos): the leftmost <cite>(.+?)</cite> from pos on, as
\* [start, end], or [start |-> 0]; "." matches no line break
cite_search(text, pos) ==
    LET CloseOf(i) == {j \in (i + 2)..Len(text) : text[j] = CITE_CLOSE}
        Matches(i) ==
            /\ text[i] = CITE_OPEN
            /\ CloseOf(i) # {}
            /\ LET j == CHOOSE j \in CloseOf(i) : \A k \in CloseOf(i) : j <= k
               IN \A k \in (i + 1)..(j - 1) : text[k] # "\n"
        starts == {i \in pos..Len(text) : Matches(i)}
    IN IF starts = {} THEN [start |-> 0, end |-> 0]
       ELSE LET i == CHOOSE i \in starts : \A k \in starts : i <= k
            IN [start |-> i, end |-> CHOOSE j \in CloseOf(i) : \A k \in CloseOf(i) : j <= k]

\* how many matches re.sub replaces: count=0 replaces them all
cite_sub_count == 0

RECURSIVE cite_sub(_, _, _)
\* re.sub(re_cite, "", text) from pos on, n matches replaced so far
cite_sub(text, pos, n) ==
    LET m == cite_search(text, pos)
    IN IF m.start = 0 \/ (cite_sub_count # 0 /\ n >= cite_sub_count)
       THEN SubSeq(text, pos, Len(text))
       ELSE SubSeq(text, pos, m.start - 1) \o cite_sub(text, m.end + 1, n + 1)

RECURSIVE to_json(_, _, _)
RECURSIVE ParagraphBlock_to_json(_, _)
RECURSIVE paragraph_scan(_, _, _, _)
RECURSIVE EditorJSCustom_to_json(_, _)

HeadingBlock_to_json(node) ==
    IF "depth" \notin DOMAIN node \/ ~(1 <= node.depth /\ node.depth <= 6)
    THEN Err("ValueError: Heading depth must be between 1 and 6")
    ELSE LET text == HeadingBlock_to_text(node)
         IN IF ~IsOk(text) THEN text
            ELSE Ok(<<[type |-> "header", data |-> [level |-> node.depth, text |-> text.val]]>>)

ImageBlock_to_json(node) ==
    Ok(<<[type |-> "image",
          data |-> [caption |-> ImageBlock_to_text(node),
                    file |-> [url |-> Get(node, "url", None)]]]>>)

QuoteBlock_to_json(node, depth) ==
    LET Quote(text, cite) ==
            Ok(<<[type |-> "quote",
                  data |-> [alignment |-> "left",
                            caption |-> IF cite.start = 0 THEN <<>>
                                        ELSE SubSeq(text, cite.start + 1, cite.end - 1),
                            text |-> IF cite.start = 0 THEN text
                                     ELSE cite_sub(text, 1, 0)]]>>)
        Searched(text) == Quote(text, cite_search(text, 1))
        Rendered(rendered) ==
            IF ~IsOk(rendered) THEN rendered
            ELSE Searched(replace(rendered.val, "\n", <<BR, "\n">>))
    IN Rendered(to_text("QuoteBlock", node, depth))

LinkBlock_to_json(node) ==
    Ok(<<[type |-> "linkTool",
          data |-> [link |-> Get(node, "href", <<>>),
                    meta |-> [title |-> Get(node, "title", <<>>),
                              description |-> Get(node, "body", <<>>),
                              image |-> [url |-> Get(node, "image", <<>>)]]]]>>)

AttachmentBlock_to_json(node) ==
    Ok(<<[type |-> "attaches",
          data |-> [file |-> [url |-> Get(node, "file", <<>>)],
                    title |-> Get(node, "body", <<>>)]]>>)

\* cls.to_json(node)
to_json(cls, node, depth) ==
    CASE cls = "HeadingBlock" -> HeadingBlock_to_json(node)
      [] cls = "ParagraphBlock" -> ParagraphBlock_to_json(node, depth)
      [] cls \in {"ListBlock", "ChecklistBlock"} -> ListBlock_to_json(node, depth)
      [] cls = "DelimiterBlock" -> Ok(<<[type |-> "delimiter", data |-> <<>>]>>)
      [] cls = "CodeBlock" ->
            Ok(<<[type |-> "code", data |-> [code |-> Get(node, "value", <<>>)]]>>)
      [] cls = "ImageBlock" -> ImageBlock_to_json(node)
      [] cls = "QuoteBlock" -> QuoteBlock_to_json(node, depth)
      [] cls = "RawBlock" -> Err("TODO")
      [] cls = "TableBlock" -> TableBlock_to_json(node)
      [] cls = "LinkBlock" -> LinkBlock_to_json(node)
      [] cls = "AttachmentBlock" -> AttachmentBlock_to_json(node)

UnknownCustomBlockType == "ValueError: Unknown custom type"

\* if not (handler := BLOCKS.get(_type))
unknown_custom_type(_type) == _type \notin DOMAIN BLOCKS

\* a dispatcher that skips a tag of unknown type instead of raising
unknown_custom_skipped == Ok(<<>>)

\* raise ValueError(f"Unknown custom type {_type}")
unknown_custom_block == Err(UnknownCustomBlockType)

EditorJSCustom_to_json(node, depth) ==
    LET children == Get(node, "children", <<>>)
        Handled(_type, attrs) ==
            IF unknown_custom_type(_type) THEN unknown_custom_block
            ELSE to_json(BLOCKS[_type], attrs, depth + 1)
        Parsed(parsed) ==
            Handled(Get(parsed.attributes, "type", ""),
                    setdefault_body(parsed.attributes, parsed.data))
    IN IF \E i \in 1..Len(children) : "value" \notin DOMAIN children[i]
       THEN Err("KeyError")
       ELSE Parsed(parse_html(Flatten([i \in 1..Len(children) |-> children[i].value])))

\* a flush with the raw and paragraph cases the wrong way round
flushed_inverted(current_text, any_html) ==
    IF current_text = <<>> THEN <<>>
    ELSE <<IF any_html THEN paragraph_block(current_text) ELSE raw_block(current_text)>>

\* the blocks flushed for the text accumulated so far
flushed(current_text, any_html) ==
    IF current_text = <<>> THEN <<>>
    ELSE <<IF any_html THEN raw_block(current_text) ELSE paragraph_block(current_text)>>

\* what the self-closing branch hands to result.append: the list to_json returns
appended_custom(blocks) == <<PyList(blocks)>>

\* the slice of line 176
custom_run(nodes, idx) ==
    SubSeq(nodes, idx, IF idx + 1 <= Len(nodes) THEN idx + 1 ELSE Len(nodes))

\* _child_text.startswith("|") and _child_text.endswith("|")
is_table_text(child_text) ==
    startswith(strip(child_text), <<"|">>) /\ endswith(strip(child_text), <<"|">>)

\* the loop of lines 157-206 from child idx on; st is
\* [result, current_text, skip, any_html]
paragraph_scan(node, idx, st, depth) ==
    LET nodes == Get(node, "children", <<>>)
        child == nodes[idx]
        _type == Get(child, "type", "None")
        value == Get(child, "value", <<>>)
        Continue(st_) == paragraph_scan(node, idx + 1, st_, depth)
        Appended(custom, any_html) ==
            IF ~IsOk(custom) THEN custom
            ELSE Continue([st EXCEPT !.result = st.result \o appended_custom(custom.val),
                                 !.any_html = any_html])
        Extended(custom, any_html) ==
            IF ~IsOk(custom) THEN custom
            ELSE Continue([st EXCEPT !.result = st.result \o custom.val,
                                 !.skip = 2,
                                 !.any_html = any_html])
        TextChild(child_text, any_html) ==
            IF ~IsOk(child_text) THEN child_text
            ELSE IF is_table_text(child_text.val)
            THEN Continue([st EXCEPT !.result = st.result \o TableBlock_to_json(child).val,
                                 !.any_html = any_html])
            ELSE Continue([st EXCEPT !.current_text = st.current_text \o child_text.val,
                                 !.any_html = any_html])
        Child(any_html) ==
            IF _type = "html" /\ startswith_editorjs(value)
            THEN IF endswith_selfclose(value)
                 THEN Appended(EditorJSCustom_to_json(node, depth), any_html)
                 ELSE Extended(EditorJSCustom_to_json([children |-> custom_run(nodes, idx)],
                                                    depth), any_html)
            ELSE IF _type = "image"
            THEN Continue([result |-> st.result \o flushed(st.current_text, any_html)
                                    \o ImageBlock_to_json(child).val,
                       current_text |-> <<>>,
                       skip |-> 0,
                       any_html |-> IF st.current_text # <<>> THEN FALSE ELSE any_html])
            ELSE TextChild(to_text("ParagraphBlock", child, depth), any_html)
    IN IF idx > Len(nodes) THEN Ok(st)
       ELSE IF st.skip > 0 THEN Continue([st EXCEPT !.skip = st.skip - 1])
       ELSE Child(st.any_html \/ _type = "html")

ParagraphBlock_to_json(node, depth) ==
    LET Flushed(scanned) ==
            IF ~IsOk(scanned) THEN scanned
            ELSE Ok(scanned.val.result
                    \o flushed(scanned.val.current_text, scanned.val.any_html))
    IN Flushed(paragraph_scan(node, 1,
                    [result |-> <<>>, current_text |-> <<>>, skip |-> 0,
                     any_html |-> FALSE], depth))

\* children of a generated paragraph
MaxParagraphChildren == 3

Text(value) == [type |-> "text", value |-> value]
Html(value) == [type |-> "html", value |-> value]
Image == [type |-> "image", url |-> <<"/", "i">>, alt |-> <<"c">>]

ParagraphChildren ==
    {Text(<<"a">>), Text(<<"b">>), Text(<<>>), Text(<<"|", "a", "|">>), Image,
     Html(<<U_OPEN>>), Html(<<EJ_LINK_SELF>>), Html(<<EJ_LINK_OPEN>>), Html(<<EJ_CLOSE>>),
     Html(<<EJ_BOGUS_SELF>>)}

\* the paragraphs of at most n children
ParagraphNodes(n) ==
    {[type |-> "paragraph", children |-> c] :
        c \in SeqsUpTo(ParagraphChildren, n)}

\* ParagraphBlock.to_json(node)
CallParagraphToJson ==
    /\ call = Idle
    /\ \E node \in ParagraphNodes(MaxParagraphChildren) :
        /\ call' = [op |-> "ParagraphBlock.to_json", node |-> node]
        /\ result' = ParagraphBlock_to_json(node, 1)
        /\ UNCHANGED BLOCKS

NextParagraph == CallParagraphToJson \/ Return

SpecParagraph == Init /\ [][NextParagraph]_vars

ChildTypes(node) == [i \in 1..Len(node.children) |-> node.children[i].type]

AllText(node) ==
    /\ node.children # <<>>
    /\ \A i \in 1..Len(node.children) : node.children[i].type = "text"

ImageOf(child) ==
    [type |-> "image", data |-> [caption |-> child.alt, file |-> [url |-> child.url]]]

\* C4 as stated: children [text, image, text] give exactly the blocks
\* [paragraph, image, paragraph] with the text before and after the image;
\* children that are all text give exactly one block.
C4_ParagraphSplittingAny ==
    call.op = "ParagraphBlock.to_json" =>
        /\ ChildTypes(call.node) = <<"text", "image", "text">> =>
              result = Ok(<<paragraph_block(call.node.children[1].value),
                            ImageOf(call.node.children[2]),
                            paragraph_block(call.node.children[3].value)>>)
        /\ AllText(call.node) => (IsOk(result) /\ Len(result.val) = 1)

\* text the scan accumulates: not empty, and not the pipe-delimited text it
\* hands to the table parser
Prose(value) == value # <<>> /\ ~is_table_text(value)

NotTable(value) == ~is_table_text(value)

\* C4 as amended: children [text, image, text] whose two texts are non-empty
\* and not pipe-delimited give exactly [paragraph, image, paragraph]; children
\* that are all text, none pipe-delimited and not all empty, give exactly one
\* block, the paragraph of their joined text.
C4_ParagraphSplitting ==
    call.op = "ParagraphBlock.to_json" =>
        LET children == call.node.children
        IN /\ (/\ ChildTypes(call.node) = <<"text", "image", "text">>
               /\ Prose(children[1].value)
               /\ Prose(children[3].value)) =>
                  result = Ok(<<paragraph_block(children[1].value),
                                ImageOf(children[2]),
                                paragraph_block(children[3].value)>>)
           /\ (/\ AllText(call.node)
               /\ \A i \in 1..Len(children) : NotTable(children[i].value)
               /\ \E i \in 1..Len(children) : children[i].value # <<>>) =>
                  result = Ok(<<paragraph_block(
                                    Flatten([i \in 1..Len(children) |-> children[i].value]))>>)

C4_Witness ==
    /\ call.op = "ParagraphBlock.to_json"
    /\ ChildTypes(call.node) = <<"text", "image", "text">>
    /\ IsOk(result)
    /\ Len(result.val) = 3
    /\ result.val[1] = paragraph_block(<<"a">>)
    /\ result.val[3] = paragraph_block(<<"b">>)

IsBlock(element) == {"type", "data"} \subseteq DOMAIN element

\* C7: every element of the sequence Paragraph to_json returns is a Block, a
\* record with a type and a data field, never a nested sequence.
C7_FlatBlocks ==
    (call.op = "ParagraphBlock.to_json" /\ IsOk(result)) =>
        \A i \in 1..Len(result.val) : IsBlock(result.val[i])

\* the type of an element of a result; a nested list has none
BlockType(element) == IF "type" \in DOMAIN element THEN element.type ELSE "list"

\* the text a paragraph or raw block carries
BlockText(element) ==
    IF element.type = "raw" THEN element.data.html ELSE element.data.text

\* C11: when the scan reaches a recognized <editorjs marker after it has
\* accumulated text, that text is flushed as its own block before the custom
\* block: the first block of the result is the text block of the first child.
C11_DocumentOrder ==
    (call.op = "ParagraphBlock.to_json" /\ IsOk(result)) =>
        LET children == call.node.children
        IN (/\ Len(children) >= 2
            /\ children[1].type = "text"
            /\ Prose(children[1].value)
            /\ children[2].type = "html"
            /\ startswith_editorjs(children[2].value)) =>
                /\ BlockType(result.val[1]) \in {"paragraph", "raw"}
                /\ BlockText(result.val[1]) = children[1].value

(***************************************************************************)
(* Paragraphs that mix text, html, images and a paired custom tag, long     *)
(* enough to hold a tag of three nodes, an image and the text after it.     *)
(***************************************************************************)
\* children of a generated paragraph of this kind
MaxScanChildren == 5

ScanChildren ==
    {Text(<<"a">>), Html(<<U_OPEN>>), Html(<<EJ_LINK_OPEN>>), Html(<<EJ_CLOSE>>), Image}

\* the paragraphs of this kind of at most n children
ScanNodes(n) ==
    {[type |-> "paragraph", children |-> c] : c \in SeqsUpTo(ScanChildren, n)}

\* ParagraphBlock.to_json(node) on such a paragraph
CallParagraphScan ==
    /\ call = Idle
    /\ \E node \in ScanNodes(MaxScanChildren) :
        /\ call' = [op |-> "ParagraphBlock.to_json", node |-> node]
        /\ result' = ParagraphBlock_to_json(node, 1)
        /\ UNCHANGED BLOCKS

NextScan == CallParagraphScan \/ Return

SpecScan == Init /\ [][NextScan]_vars

\* the children of the given type, and the blocks of the given type
ChildrenOfType(node, _type) ==
    {i \in 1..Len(node.children) : node.children[i].type = _type}

BlocksOfType(blocks, _type) == {j \in 1..Len(blocks) : BlockType(blocks[j]) = _type}

Last(S) == CHOOSE i \in S : \A j \in S : j <= i

\* C13: a flushed text block is raw exactly when an html child was seen since
\* the previous reset.  Without an image and without a custom tag the one
\* block flushed at the end is raw exactly when some child is html; and when
\* every image child was reached and no html child follows the last image,
\* no block after the last image block is raw.
C13_RawOrParagraph ==
    (call.op = "ParagraphBlock.to_json" /\ IsOk(result)) =>
        LET children == call.node.children
            images == ChildrenOfType(call.node, "image")
            htmls == ChildrenOfType(call.node, "html")
            image_blocks == BlocksOfType(result.val, "image")
        IN /\ (/\ children # <<>>
               /\ images = {}
               /\ \A i \in htmls : ~startswith_editorjs(children[i].value)) =>
                    /\ Len(result.val) = 1
                    /\ BlockType(result.val[1]) = IF htmls = {} THEN "paragraph" ELSE "raw"
           /\ (/\ images # {}
               /\ Cardinality(image_blocks) = Cardinality(images)
               /\ \A i \in htmls : i < Last(images)) =>
                    \A j \in (Last(image_blocks) + 1)..Len(result.val) :
                        BlockType(result.val[j]) # "raw"

(***************************************************************************)
(* EditorJSCustom.run, the markdown2 postprocessing callback               *)
(* (blocks.py 669-688).                                                    *)
(***************************************************************************)
\* the first index from pos on that holds one of the lexemes in S and is not
\* past a line break after position i; 0 when there is none
first_on_line(text, i, S) ==
    LET hits == {j \in (i + 1)..Len(text) :
                    /\ text[j] \in S
                    /\ \A k \in (i + 1)..(j - 1) : text[k] # "\n"}
    IN IF hits = {} THEN 0 ELSE CHOOSE j \in hits : \A k \in hits : j <= k

SelfClosing(text) == {text[j] : j \in {k \in 1..Len(text) : TagOf(text[k]).kind = "startend"}}

\* where a match of re_long, <editorjs.*?>.*?</editorjs>, that starts at i ends
long_end(text, i) ==
    IF startswith_editorjs(<<text[i]>>) THEN first_on_line(text, i, {EJ_CLOSE}) ELSE 0

\* where a match of re_short, <editorjs.*?/>, that starts at i ends
short_end(text, i) ==
    IF ~startswith_editorjs(<<text[i]>>) THEN 0
    ELSE IF TagOf(text[i]).kind = "startend" THEN i
    ELSE first_on_line(text, i, SelfClosing(text))

\* pattern.search(text, pos) as [start, end], or [start |-> 0]
tag_search(pattern, text, pos) ==
    LET End(i) == IF pattern = "re_long" THEN long_end(text, i) ELSE short_end(text, i)
        starts == {i \in pos..Len(text) : End(i) # 0}
    IN IF starts = {} THEN [start |-> 0, end |-> 0]
       ELSE LET i == CHOOSE i \in starts : \A k \in starts : i <= k
            IN [start |-> i, end |-> End(i)]

\* run.replace_html(match)
replace_html(matched) ==
    LET Handled(_type, attrs) ==
            IF unknown_custom_type(_type) THEN unknown_custom_block
            ELSE to_text(BLOCKS[_type], attrs, 1)
        Parsed(parsed) ==
            Handled(Get(parsed.attributes, "type", ""),
                    setdefault_body(parsed.attributes, parsed.data))
    IN Parsed(parse_html(matched))

\* the type attribute replace_html reads from a match
decoded_type(matched) == Get(parse_html(matched).attributes, "type", "")

RECURSIVE tag_sub(_, _, _)
\* pattern.sub(replace_html, text) from pos on: [kind, val, decoded], where
\* decoded lists the type of every match replace_html was called on
tag_sub(pattern, text, pos) ==
    LET m == tag_search(pattern, text, pos)
        matched == SubSeq(text, m.start, m.end)
        Joined(replaced, rest, decoded) ==
            IF ~IsOk(replaced) THEN [kind |-> replaced.kind, decoded |-> decoded]
            ELSE IF ~IsOk(rest) THEN [kind |-> rest.kind, decoded |-> decoded \o rest.decoded]
            ELSE [kind |-> "ok",
                  val |-> SubSeq(text, pos, m.start - 1) \o replaced.val \o rest.val,
                  decoded |-> decoded \o rest.decoded]
    IN IF m.start = 0
       THEN [kind |-> "ok", val |-> SubSeq(text, pos, Len(text)), decoded |-> <<>>]
       ELSE Joined(replace_html(matched), tag_sub(pattern, text, m.end + 1),
                   <<decoded_type(matched)>>)

\* the two passes of lines 685-686, in this order
run_passes == <<"re_long", "re_short">>

EditorJSCustom_run(text) ==
    LET Second(first, second) ==
            IF ~IsOk(second)
            THEN [kind |-> second.kind, decoded |-> first.decoded \o second.decoded]
            ELSE [kind |-> "ok", val |-> second.val,
                  decoded |-> first.decoded \o second.decoded]
        First(first) ==
            IF ~IsOk(first) THEN first
            ELSE Second(first, tag_sub(run_passes[2], first.val, 1))
    IN First(tag_sub(run_passes[1], text, 1))

\* lexemes of a generated text, and children of a generated custom node
MaxTextLen == 3

TextLexemes ==
    {"a", "\n", EJ_LINK_OPEN, EJ_CLOSE, EJ_CODE_SELF, EJ_CODE_AMP, EJ_BOGUS_SELF,
     EJ_BOGUS_OPEN, EJ_NOTYPE_SELF, EJ_RAW_SELF, X_CODE_OPEN}

\* the texts of at most n lexemes
Texts(n) == SeqsUpTo(TextLexemes, n)

\* EditorJSCustom().run(text)
CallRun ==
    /\ call = Idle
    /\ \E text \in Texts(MaxTextLen) :
        /\ call' = [op |-> "run", text |-> text]
        /\ result' = EditorJSCustom_run(text)
        /\ UNCHANGED BLOCKS

\* the pipeline hands the text run returned to run once more
CallRunAgain ==
    /\ call.op = "run"
    /\ IsOk(result)
    /\ call' = [op |-> "run again", text |-> result.val]
    /\ result' = EditorJSCustom_run(result.val)
    /\ UNCHANGED BLOCKS

\* EditorJSCustom.to_json(node)
CallCustomToJson ==
    /\ call = Idle
    /\ \E text \in Texts(MaxTextLen) :
        /\ call' = [op |-> "EditorJSCustom.to_json",
                    node |-> [children |-> [i \in 1..Len(text) |-> Html(<<text[i]>>)]]]
        /\ result' = EditorJSCustom_to_json(call'.node, 1)
        /\ UNCHANGED BLOCKS

NextCustom == CallRun \/ CallRunAgain \/ CallCustomToJson \/ Return

SpecCustom == Init /\ [][NextCustom]_vars

\* the type attribute the direct decoding of a node reads
NodeType(node) ==
    decoded_type(Flatten([i \in 1..Len(node.children) |-> node.children[i].value]))

Unregistered(_type) == _type \notin DOMAIN BLOCKS

C10_RunIdempotent ==
    call.op = "run again" =>
        /\ IsOk(result)
        /\ result.val = call.text
        /\ result.decoded = <<>>

(***************************************************************************)
(* Quotes handed to QuoteBlock.to_json.                                    *)
(***************************************************************************)
\* lexemes of the text of a generated quote
MaxQuoteLen == 6

QuoteLexemes == {"a", "\n", CITE_OPEN, CITE_CLOSE}

\* the quotes whose text has at most n lexemes
QuoteNodes(n) ==
    {[type |-> "blockquote", children |-> <<Paragraph(text)>>] :
        text \in SeqsUpTo(QuoteLexemes, n)}

\* QuoteBlock.to_json(node)
CallQuoteToJson ==
    /\ call = Idle
    /\ \E node \in QuoteNodes(MaxQuoteLen) :
        /\ call' = [op |-> "QuoteBlock.to_json", node |-> node]
        /\ result' = QuoteBlock_to_json(node, 1)
        /\ UNCHANGED BLOCKS

NextQuote == CallQuoteToJson \/ Return

SpecQuote == Init /\ [][NextQuote]_vars

\* C6: Quote to_json returns one quote block, alignment left, of the rendered
\* text with each line break replaced by <br/> and a line break; caption is
\* the content of the first <cite>...</cite> and text has that first
\* occurrence, and only it, removed; without a cite the caption is empty.
C6_QuoteCite ==
    (call.op = "QuoteBlock.to_json" /\ IsOk(to_text("QuoteBlock", call.node, 1))) =>
        LET text == replace(to_text("QuoteBlock", call.node, 1).val, "\n", <<BR, "\n">>)
            cite == cite_search(text, 1)
        IN result = Ok(<<[type |-> "quote",
                          data |-> [alignment |-> "left",
                                    caption |-> IF cite.start = 0 THEN <<>>
                                                ELSE SubSeq(text, cite.start + 1, cite.end - 1),
                                    text |-> IF cite.start = 0 THEN text
                                             ELSE SubSeq(text, 1, cite.start - 1)
                                                    \o SubSeq(text, cite.end + 1, Len(text))]]>>)

(***************************************************************************)
(* Registration at run time: the block decorator is exported and callable  *)
(* after import.                                                           *)
(***************************************************************************)
\* names per block(...) call
MaxNames == 2

RegistrableNames == {"paragraph", "header", "mark", "embed"}
RegistrableConverters == {"ParagraphBlock", "HeadingBlock", "CodeBlock"}

\* the decorator applied: block(names...)(cls)
Register ==
    /\ call = Idle
    /\ \E names \in SeqsUpTo(RegistrableNames, MaxNames), cls \in RegistrableConverters :
        /\ call' = [op |-> "block", names |-> names, cls |-> cls]
        /\ BLOCKS' = block_wrapper(BLOCKS, names, cls)
        /\ result' = Ok(<<cls>>)

NextRegistry == Register \/ Return

SpecRegistry == Init /\ [][NextRegistry]_vars

\* C2: the registry is write-once per name: a name that maps to a converter
\* never afterwards maps to a different one.
C2_WriteOnce ==
    [][\A name \in DOMAIN BLOCKS : name \in DOMAIN BLOCKS' /\ BLOCKS'[name] = BLOCKS[name]]_vars

====
